---- MODULE Spec2Model ----
(***************************************************************************)
(* The sort-and-selection state of the DataTable component                 *)
(* (src/src/components/DataTable.tsx): the sort state and its three-state  *)
(* cycle, the derived (sorted) view, the set of selected row keys and the  *)
(* rows handed to the onRowSelect observer.                                *)
(***************************************************************************)
EXTENDS Integers, Sequences, FiniteSets, TLC

(***************************************************************************)
(* Bounds of the model.                                                    *)
(***************************************************************************)
\* longest data array the host supplies
MaxRows == 3

(***************************************************************************)
(* Cell values.  A JavaScript value is a record: t is its type ("null" for *)
(* null and undefined alike), n the number (or the epoch day of a Date),   *)
(* s the string as a sequence of one-character strings.                    *)
(***************************************************************************)
NULL == "null"

Null == [t |-> "null", n |-> 0, s |-> <<>>]

Num(n) == [t |-> "num", n |-> n, s |-> <<>>]

Str(s) == [t |-> "str", n |-> 0, s |-> s]

DateVal(n) == [t |-> "date", n |-> n, s |-> <<>>]

\* the number NaN and the Date whose getTime() is NaN: s holds their text
NaN == [t |-> "num", n |-> 0, s |-> <<"n", "a", "n">>]

InvalidDate ==
  [t |-> "date", n |-> 0, s |-> <<"i", "n", "v", "a", "l", "i", "d", "d", "a", "t", "e">>]

isNaN(v) == v.t \in {"num", "date"} /\ v.s # <<>>

\* the characters in collation order: localeCompare orders digits before letters
Collation ==
  <<"0", "1", "2", "3", "4", "5", "6", "7", "8", "9",
    "a", "b", "c", "d", "e", "f", "g", "h", "i", "j", "k", "l", "m",
    "n", "o", "p", "q", "r", "s", "t", "u", "v", "w", "x", "y", "z">>

RankOf ==
  [c \in {Collation[i] : i \in 1..Len(Collation)} |->
     CHOOSE i \in 1..Len(Collation) : Collation[i] = c]

Rank(c) == RankOf[c]

(***************************************************************************)
(* The rows and columns the host can supply: the three users of the        *)
(* component's test (John 30, Jane 25, Bob 35), a fourth user whose age    *)
(* and name repeat those of others, and a row without id, name and age.    *)
(***************************************************************************)
John == [id |-> Num(1), name |-> Str(<<"j", "o", "h", "n">>), age |-> Num(30)]

Jane == [id |-> Num(2), name |-> Str(<<"j", "a", "n", "e">>), age |-> Num(25)]

Bob == [id |-> Num(3), name |-> Str(<<"b", "o", "b">>), age |-> Num(35)]

Jane2 == [id |-> Num(4), name |-> Str(<<"j", "a", "n", "e">>), age |-> Num(30)]

Anon == [id |-> Null, name |-> Null, age |-> Null]

\* a row with an id whose name is a prefix of another and whose age is missing
Bo == [id |-> Num(5), name |-> Str(<<"b", "o">>), age |-> Null]

Rows == {John, Jane, Bob, Jane2, Bo, Anon}

\* the rows of the data arrays the host supplies while rows are being selected
HostRows == {John, Bob, Anon}

RECURSIVE SeqsUpTo(_, _)
SeqsUpTo(S, n) ==
  IF n = 0 THEN {<<>>}
  ELSE LET shorter == SeqsUpTo(S, n - 1)
       IN shorter \cup {Append(q, x) : q \in {p \in shorter : Len(p) = n - 1}, x \in S}

DataSets == SeqsUpTo(Rows, MaxRows)

HostData == SeqsUpTo(HostRows, MaxRows)

mockUsers == <<John, Jane, Bob>>

ColName == [key |-> "name", dataIndex |-> "name", sortable |-> TRUE]

ColAge == [key |-> "age", dataIndex |-> "age", sortable |-> TRUE]

ColStatus == [key |-> "status", dataIndex |-> "status", sortable |-> FALSE]

mockColumns == <<ColName, ColAge, ColStatus>>

ColumnSets == {mockColumns, <<ColName, ColStatus>>}

Range(s) == {s[i] : i \in 1..Len(s)}

(***************************************************************************)
(* State.                                                                  *)
(***************************************************************************)
VARIABLES
  data,          \* prop data: the rows in the host's order
  columns,       \* prop columns
  rowSelection,  \* the selection mode the host asks for: "single", "multiple", NULL
  onRowSelect,   \* TRUE iff the host registered the observer
  rowKeyProp,    \* prop rowKey as the host passes it: not at all, a field, a function
  sortState,     \* useState: [key, direction]
  selectedRows,  \* useState: the set of selected row keys
  rendered,      \* the selectedRows the handlers of the last render closed over
  memo,          \* useMemo: the dependencies and the value of sortedData
  lastOp,        \* the handler that ran last, with the key of the column clicked
  notified,      \* TRUE iff the last step called onRowSelect
  emitted        \* the rows the last step passed to onRowSelect

vars == <<data, columns, rowSelection, onRowSelect, rowKeyProp, sortState,
          selectedRows, rendered, memo, lastOp, notified, emitted>>

\* the component's only selection switch
selectable == rowSelection # NULL

\* the values of prop rowKey: left out, the name of a field, or a function,
\* here the function record => record[f]
NoRowKey == [kind |-> "default", f |-> ""]

RowKeyField(f) == [kind |-> "field", f |-> f]

RowKeyFunction(f) == [kind |-> "function", f |-> f]

RowKeyProps ==
  {NoRowKey, RowKeyField("id"), RowKeyField("name"), RowKeyField("email"),
   RowKeyFunction("name")}

\* prop rowKey with its default, the field 'id'
rowKey == IF rowKeyProp.kind = "default" THEN "id" ELSE rowKeyProp.f

Field(record, f) == IF f \in DOMAIN record THEN record[f] ELSE Null

\* getRowKey without the fallback to the index
getRowKeyNoFallback(record, index) == Field(record, rowKey)

\* getRowKey(record, index), index counted from 0
getRowKey(record, index) ==
  IF rowKeyProp.kind = "function" THEN Field(record, rowKeyProp.f)
  ELSE IF Field(record, rowKey).t = "null" THEN Num(index)
  ELSE Field(record, rowKey)

(***************************************************************************)
(* The comparator of sortedData.                                           *)
(***************************************************************************)
\* a.localeCompare(b): -1, 0 or 1 by the first differing character, a proper
\* prefix first
RECURSIVE localeCompare(_, _)
localeCompare(a, b) ==
  IF a = <<>> /\ b = <<>> THEN 0
  ELSE IF a = <<>> THEN -1
  ELSE IF b = <<>> THEN 1
  ELSE IF Rank(Head(a)) < Rank(Head(b)) THEN -1
  ELSE IF Rank(Head(a)) > Rank(Head(b)) THEN 1
  ELSE localeCompare(Tail(a), Tail(b))

\* the decimal digits of a number n >= 0
RECURSIVE Digits(_)
Digits(n) ==
  IF n < 10 THEN <<Collation[n + 1]>>
  ELSE Append(Digits(n \div 10), Collation[(n % 10) + 1])

Weekdays ==
  << <<"t", "h", "u">>, <<"f", "r", "i">>, <<"s", "a", "t">>, <<"s", "u", "n">>,
     <<"m", "o", "n">>, <<"t", "u", "e">>, <<"w", "e", "d">> >>

\* String(value): a string as it is, a number in decimal, a Date (day n of
\* January 1970, n counted from 0) as "Thu Jan 01 1970 ..." without the blanks
\* and the part all such dates share
stringOf(v) ==
  IF v.t = "str" \/ isNaN(v) THEN v.s
  ELSE IF v.t = "num" THEN Digits(v.n)
  ELSE Weekdays[(v.n % 7) + 1] \o <<"j", "a", "n">>
         \o (IF v.n + 1 < 10 THEN <<"0">> ELSE <<>>) \o Digits(v.n + 1)

\* a - b for two numbers or the times of two dates, as sort reads it: NaN
\* (a or b is NaN) is read as +0
minus(a, b) == IF isNaN(a) \/ isNaN(b) THEN 0 ELSE a.n - b.n

\* compare with an absent value before a present one whatever the direction
compareAbsentFirst(aValue, bValue, direction) ==
  IF aValue.t = "null" /\ bValue.t = "null" THEN 0
  ELSE IF aValue.t = "null" THEN -1
  ELSE IF bValue.t = "null" THEN 1
  ELSE IF aValue.t = "str" /\ bValue.t = "str"
    THEN LET comparison == localeCompare(aValue.s, bValue.s)
         IN IF direction = "asc" THEN comparison ELSE -comparison
  ELSE IF aValue.t = "num" /\ bValue.t = "num"
    THEN IF direction = "asc" THEN minus(aValue, bValue) ELSE minus(bValue, aValue)
  ELSE IF aValue.t = "date" /\ bValue.t = "date"
    THEN IF direction = "asc" THEN minus(aValue, bValue) ELSE minus(bValue, aValue)
  ELSE LET comparison == localeCompare(stringOf(aValue), stringOf(bValue))
       IN IF direction = "asc" THEN comparison ELSE -comparison

\* the comparison function handed to sort, for the two cell values
compare(aValue, bValue, direction) ==
  IF aValue.t = "null" /\ bValue.t = "null" THEN 0
  ELSE IF aValue.t = "null" THEN (IF direction = "asc" THEN -1 ELSE 1)
  ELSE IF bValue.t = "null" THEN (IF direction = "asc" THEN 1 ELSE -1)
  ELSE IF aValue.t = "str" /\ bValue.t = "str"
    THEN LET comparison == localeCompare(aValue.s, bValue.s)
         IN IF direction = "asc" THEN comparison ELSE -comparison
  ELSE IF aValue.t = "num" /\ bValue.t = "num"
    THEN IF direction = "asc" THEN minus(aValue, bValue) ELSE minus(bValue, aValue)
  ELSE IF aValue.t = "date" /\ bValue.t = "date"
    THEN IF direction = "asc" THEN minus(aValue, bValue) ELSE minus(bValue, aValue)
  ELSE LET comparison == localeCompare(stringOf(aValue), stringOf(bValue))
       IN IF direction = "asc" THEN comparison ELSE -comparison

\* insert with an element put before the elements it compares equal to
RECURSIVE insertBeforeEqual(_, _, _, _)
insertBeforeEqual(sorted, x, f, direction) ==
  IF sorted = <<>> THEN <<x>>
  ELSE LET last == sorted[Len(sorted)]
       IN IF compare(Field(last, f), Field(x, f), direction) >= 0
            THEN Append(insertBeforeEqual(SubSeq(sorted, 1, Len(sorted) - 1),
                                          x, f, direction), last)
            ELSE Append(sorted, x)

\* Array.prototype.sort is stable: each element is inserted behind the last
\* element that does not compare greater than it
RECURSIVE insert(_, _, _, _)
insert(sorted, x, f, direction) ==
  IF sorted = <<>> THEN <<x>>
  ELSE LET last == sorted[Len(sorted)]
       IN IF compare(Field(last, f), Field(x, f), direction) > 0
            THEN Append(insert(SubSeq(sorted, 1, Len(sorted) - 1), x, f, direction), last)
            ELSE Append(sorted, x)

RECURSIVE sort(_, _, _)
sort(rows, f, direction) ==
  IF rows = <<>> THEN <<>>
  ELSE insert(sort(SubSeq(rows, 1, Len(rows) - 1), f, direction),
              rows[Len(rows)], f, direction)

\* columns.find(col => col.key === key): the position of the first match, 0 if none
find(cols, key) ==
  IF \E i \in 1..Len(cols) : cols[i].key = key
    THEN CHOOSE i \in 1..Len(cols) :
           cols[i].key = key /\ \A j \in 1..(i - 1) : cols[j].key # key
    ELSE 0

\* derive with the direction ignored: the rows always ascend
deriveAscending(rows, cols, state) ==
  IF state.key = NULL \/ state.key = "" \/ state.direction = NULL THEN rows
  ELSE IF find(cols, state.key) = 0 THEN rows
  ELSE sort(rows, cols[find(cols, state.key)].dataIndex, "asc")

\* derive with the rows that have no value in the column left out
deriveDropAbsent(rows, cols, state) ==
  IF state.key = NULL \/ state.key = "" \/ state.direction = NULL THEN rows
  ELSE IF find(cols, state.key) = 0 THEN rows
  ELSE LET f == cols[find(cols, state.key)].dataIndex
           present(r) == Field(r, f).t # "null"
       IN sort(SelectSeq(rows, present), f, state.direction)

\* derive sorting by the first column when the sort state names none of them
deriveFirstColumn(rows, cols, state) ==
  IF state.key = NULL \/ state.key = "" \/ state.direction = NULL THEN rows
  ELSE IF cols = <<>> THEN rows
  ELSE sort(rows,
            cols[IF find(cols, state.key) = 0 THEN 1 ELSE find(cols, state.key)].dataIndex,
            state.direction)

\* the function passed to useMemo, applied to its dependencies
derive(rows, cols, state) ==
  IF state.key = NULL \/ state.key = "" \/ state.direction = NULL THEN rows
  ELSE IF find(cols, state.key) = 0 THEN rows
  ELSE sort(rows, cols[find(cols, state.key)].dataIndex, state.direction)

\* the memo cell of the first render
mount(rows, cols, state) ==
  [data |-> rows, sortState |-> state, columns |-> cols,
   value |-> derive(rows, cols, state)]

\* useMemo sorting the rows of the view it holds when the data are the same
useMemoSortsView(prev, rows, cols, state) ==
  IF prev.data = rows /\ prev.sortState = state /\ prev.columns = cols THEN prev
  ELSE [data |-> rows, sortState |-> state, columns |-> cols,
        value |-> derive(IF prev.data = rows THEN prev.value ELSE rows, cols, state)]

\* useMemo(..., [data, sortState, columns]) in a render: the value it holds
\* when no dependency has changed, the function's result otherwise
useMemo(prev, rows, cols, state) ==
  IF prev.data = rows /\ prev.sortState = state /\ prev.columns = cols THEN prev
  ELSE mount(rows, cols, state)

\* the view the last render displayed
sortedData == memo.value

(***************************************************************************)
(* The handlers.                                                           *)
(***************************************************************************)
\* nextSortState with the direction of the column left in place when another
\* column is clicked
nextSortStateKeepDirection(prev, column) ==
  IF prev.key = column.key
    THEN LET newDirection ==
               IF prev.direction = "asc" THEN "desc"
               ELSE IF prev.direction = "desc" THEN NULL ELSE "asc"
         IN [key |-> IF newDirection # NULL THEN column.key ELSE NULL,
             direction |-> newDirection]
    ELSE [key |-> column.key,
          direction |-> IF prev.direction = NULL THEN "asc" ELSE prev.direction]

\* nextSortState with the key kept when the direction is cleared
nextSortStateKeepKey(prev, column) ==
  IF prev.key = column.key
    THEN LET newDirection ==
               IF prev.direction = "asc" THEN "desc"
               ELSE IF prev.direction = "desc" THEN NULL ELSE "asc"
         IN [key |-> column.key, direction |-> newDirection]
    ELSE [key |-> column.key, direction |-> "asc"]

\* nextSortState with a cycle of two: desc goes back to asc
nextSortStateNoReset(prev, column) ==
  IF prev.key = column.key
    THEN [key |-> column.key,
          direction |-> IF prev.direction = "asc" THEN "desc" ELSE "asc"]
    ELSE [key |-> column.key, direction |-> "asc"]

\* the updater handleSort passes to setSortState
nextSortState(prev, column) ==
  IF prev.key = column.key
    THEN LET newDirection ==
               IF prev.direction = "asc" THEN "desc"
               ELSE IF prev.direction = "desc" THEN NULL ELSE "asc"
         IN [key |-> IF newDirection # NULL THEN column.key ELSE NULL,
             direction |-> newDirection]
    ELSE [key |-> column.key, direction |-> "asc"]

\* data.filter((record, index) => keys.has(getRowKey(record, index)))
RECURSIVE selectedRecords(_, _)
selectedRecords(rows, keys) ==
  IF rows = <<>> THEN <<>>
  ELSE LET front == selectedRecords(SubSeq(rows, 1, Len(rows) - 1), keys)
       IN IF getRowKey(rows[Len(rows)], Len(rows) - 1) \in keys
            THEN Append(front, rows[Len(rows)])
            ELSE front

\* new Set(data.map((record, index) => getRowKey(record, index)))
allKeys(rows) == {getRowKey(rows[i], i - 1) : i \in 1..Len(rows)}

\* toggled without the deletion: a selected key stays selected
toggledAddOnly(keys, key) == keys \cup {key}

\* new Set(selectedRows) with rowKey deleted if present, added if not
toggled(keys, key) == IF key \in keys THEN keys \ {key} ELSE keys \cup {key}

Init ==
  /\ data \in HostData
  /\ columns \in ColumnSets
  /\ rowSelection \in {NULL, "multiple"}
  /\ onRowSelect \in BOOLEAN
  /\ rowKeyProp = NoRowKey
  /\ sortState = [key |-> NULL, direction |-> NULL]
  /\ selectedRows = {}
  /\ rendered = {}
  /\ memo = mount(data, columns, sortState)
  /\ lastOp = [op |-> "init", arg |-> ""]
  /\ notified = FALSE
  /\ emitted = <<>>

\* handleSort without the early return for a column that is not sortable
handleSortAnyColumn(column) ==
  /\ sortState' = nextSortState(sortState, column)
  /\ lastOp' = [op |-> "handleSort", arg |-> column.key]
  /\ notified' = FALSE
  /\ emitted' = <<>>
  /\ UNCHANGED <<data, columns, rowSelection, onRowSelect, rowKeyProp,
                 selectedRows, rendered>>
  /\ memo' = useMemo(memo, data', columns', sortState')

\* handleSort with the rows sorted in the array the host passed, not in a copy
handleSortInPlace(column) ==
  /\ sortState' = IF ~column.sortable THEN sortState
                  ELSE nextSortState(sortState, column)
  /\ data' = derive(data, columns, sortState')
  /\ lastOp' = [op |-> "handleSort", arg |-> column.key]
  /\ notified' = FALSE
  /\ emitted' = <<>>
  /\ UNCHANGED <<columns, rowSelection, onRowSelect, rowKeyProp, selectedRows, rendered>>
  /\ memo' = useMemo(memo, data', columns', sortState')

\* a click on the header of column, and the render React runs when the click
\* is handled
handleSort(column) ==
  /\ sortState' = IF ~column.sortable THEN sortState
                  ELSE nextSortState(sortState, column)
  /\ lastOp' = [op |-> "handleSort", arg |-> column.key]
  /\ notified' = FALSE
  /\ emitted' = <<>>
  /\ UNCHANGED <<data, columns, rowSelection, onRowSelect, rowKeyProp,
                 selectedRows, rendered>>
  /\ memo' = useMemo(memo, data', columns', sortState')

\* rowSelect putting the sort state back to none
rowSelectResetsSort(index) ==
  /\ LET record == sortedData[index + 1]
         key == getRowKey(record, index)
         newSelectedRows == toggled(rendered, key)
     IN /\ selectedRows' = newSelectedRows
        /\ notified' = onRowSelect
        /\ emitted' = IF onRowSelect THEN selectedRecords(data, newSelectedRows)
                      ELSE <<>>
  /\ sortState' = [key |-> NULL, direction |-> NULL]
  /\ lastOp' = [op |-> "handleRowSelect", arg |-> ""]
  /\ UNCHANGED <<data, columns, rowSelection, onRowSelect, rowKeyProp>>

\* the body of handleRowSelect for the row shown at position index of the
\* view: selectedRows is the set the handler closed over at the last render
rowSelect(index) ==
  /\ LET record == sortedData[index + 1]
         key == getRowKey(record, index)
         newSelectedRows == toggled(rendered, key)
     IN /\ selectedRows' = newSelectedRows
        /\ notified' = onRowSelect
        /\ emitted' = IF onRowSelect THEN selectedRecords(data, newSelectedRows)
                      ELSE <<>>
  /\ lastOp' = [op |-> "handleRowSelect", arg |-> ""]
  /\ UNCHANGED <<data, columns, rowSelection, onRowSelect, rowKeyProp, sortState>>

\* handleRowSelect reachable though the component is not selectable
handleRowSelectAlways(index) ==
  /\ rowSelect(index)
  /\ rendered' = selectedRows'
  /\ memo' = useMemo(memo, data', columns', sortState')

\* a click on the checkbox of the row shown at position index of the view,
\* and the render React runs when the click is handled
handleRowSelect(index) ==
  /\ selectable
  /\ rowSelect(index)
  /\ rendered' = selectedRows'
  /\ memo' = useMemo(memo, data', columns', sortState')

\* selectAllResult without the branch that empties the selection
selectAllResultNeverClears(keys, rows) == allKeys(rows)

\* the set handleSelectAll passes to setSelectedRows
selectAllResult(keys, rows) ==
  IF Cardinality(keys) = Len(rows) THEN {} ELSE allKeys(rows)

\* the body of handleSelectAll
selectAll ==
  /\ selectedRows' = selectAllResult(rendered, data)
  /\ emitted' = IF onRowSelect /\ Cardinality(rendered) # Len(data) THEN data
                ELSE <<>>
  /\ notified' = onRowSelect
  /\ lastOp' = [op |-> "handleSelectAll", arg |-> ""]
  /\ UNCHANGED <<data, columns, rowSelection, onRowSelect, rowKeyProp, sortState>>

\* handleSelectAll handing the sorted view to the observer
handleSelectAllView ==
  /\ selectable
  /\ selectedRows' = selectAllResult(rendered, data)
  /\ emitted' = IF onRowSelect /\ Cardinality(rendered) # Len(data) THEN sortedData
                ELSE <<>>
  /\ notified' = onRowSelect
  /\ lastOp' = [op |-> "handleSelectAll", arg |-> ""]
  /\ rendered' = selectedRows'
  /\ UNCHANGED <<data, columns, rowSelection, onRowSelect, rowKeyProp, sortState>>
  /\ memo' = useMemo(memo, data', columns', sortState')

\* a click on the checkbox of the header, and the render React runs when the
\* click is handled
handleSelectAll ==
  /\ selectable
  /\ selectAll
  /\ rendered' = selectedRows'
  /\ memo' = useMemo(memo, data', columns', sortState')

\* isAllSelected without the test for an empty data array
isAllSelectedAnyLength == Cardinality(selectedRows) = Len(data)

\* the state of the header checkbox: checked
isAllSelected == Len(data) > 0 /\ Cardinality(selectedRows) = Len(data)

\* the state of the header checkbox: indeterminate
isIndeterminate ==
  Cardinality(selectedRows) > 0 /\ Cardinality(selectedRows) < Len(data)

\* the data arrays the host passes from one render to the next: a row taken
\* out of the array, or a row put at its end
edits(rows) ==
  {SubSeq(rows, 1, i - 1) \o SubSeq(rows, i + 1, Len(rows)) : i \in 1..Len(rows)}
    \cup {Append(rows, r) : r \in {h \in HostRows : Len(rows) < MaxRows}}

\* setData with the selection emptied when the data change
setDataResets(rows) ==
  /\ rows # data
  /\ data' = rows
  /\ selectedRows' = {}
  /\ rendered' = {}
  /\ lastOp' = [op |-> "setData", arg |-> ""]
  /\ notified' = FALSE
  /\ emitted' = <<>>
  /\ UNCHANGED <<columns, rowSelection, onRowSelect, rowKeyProp, sortState>>
  /\ memo' = useMemo(memo, data', columns', sortState')

\* the host renders the component again with another data array
setData(rows) ==
  /\ rows # data
  /\ data' = rows
  /\ lastOp' = [op |-> "setData", arg |-> ""]
  /\ notified' = FALSE
  /\ emitted' = <<>>
  /\ UNCHANGED <<columns, rowSelection, onRowSelect, rowKeyProp, sortState,
                 selectedRows, rendered>>
  /\ memo' = useMemo(memo, data', columns', sortState')

\* the host renders the component again with other columns
setColumns(cols) ==
  /\ cols # columns
  /\ columns' = cols
  /\ lastOp' = [op |-> "setColumns", arg |-> ""]
  /\ notified' = FALSE
  /\ emitted' = <<>>
  /\ UNCHANGED <<data, rowSelection, onRowSelect, rowKeyProp, sortState,
                 selectedRows, rendered>>
  /\ memo' = useMemo(memo, data', columns', sortState')

Next ==
  \/ \E i \in 1..Len(columns) : handleSort(columns[i])
  \/ \E index \in 0..(Len(sortedData) - 1) : handleRowSelect(index)
  \/ handleSelectAll
  \/ \E rows \in edits(data) : setData(rows)
  \/ \E cols \in ColumnSets : setColumns(cols)

Spec == Init /\ [][Next]_vars

\* the component mounted by a host that asks for the single selection mode
InitSingle ==
  /\ data \in HostData
  /\ columns \in ColumnSets
  /\ rowSelection = "single"
  /\ onRowSelect \in BOOLEAN
  /\ rowKeyProp = NoRowKey
  /\ sortState = [key |-> NULL, direction |-> NULL]
  /\ selectedRows = {}
  /\ rendered = {}
  /\ memo = mount(data, columns, sortState)
  /\ lastOp = [op |-> "init", arg |-> ""]
  /\ notified = FALSE
  /\ emitted = <<>>

SpecSingle == InitSingle /\ [][Next]_vars

(***************************************************************************)
(* The derived view alone: any data array, with selection switched off,    *)
(* under every sort state the header clicks and column changes lead to.    *)
(***************************************************************************)
InitView ==
  /\ data \in DataSets
  /\ columns \in ColumnSets
  /\ rowSelection = NULL
  /\ onRowSelect = FALSE
  /\ rowKeyProp = NoRowKey
  /\ sortState = [key |-> NULL, direction |-> NULL]
  /\ selectedRows = {}
  /\ rendered = {}
  /\ memo = mount(data, columns, sortState)
  /\ lastOp = [op |-> "init", arg |-> ""]
  /\ notified = FALSE
  /\ emitted = <<>>

NextView ==
  \/ \E i \in 1..Len(columns) : handleSort(columns[i])
  \/ \E cols \in ColumnSets : setColumns(cols)

SpecView == InitView /\ [][NextView]_vars

(***************************************************************************)
(* The comparator over cells of every type: a table of one sortable column *)
(* whose cells are absent, numbers, strings and dates.                     *)
(***************************************************************************)
CellValues ==
  {Null, Num(1), Num(2), NaN, Str(<<"a">>), Str(<<"a", "b">>), Str(<<"2">>),
   DateVal(0), DateVal(1), InvalidDate}

CellRows == {[id |-> Null, value |-> v] : v \in CellValues}

ColValue == [key |-> "value", dataIndex |-> "value", sortable |-> TRUE]

InitCompare ==
  /\ data \in SeqsUpTo(CellRows, MaxRows)
  /\ columns = <<ColValue>>
  /\ rowSelection = NULL
  /\ onRowSelect = FALSE
  /\ rowKeyProp = NoRowKey
  /\ sortState = [key |-> NULL, direction |-> NULL]
  /\ selectedRows = {}
  /\ rendered = {}
  /\ memo = mount(data, columns, sortState)
  /\ lastOp = [op |-> "init", arg |-> ""]
  /\ notified = FALSE
  /\ emitted = <<>>

NextCompare == handleSort(ColValue)

SpecCompare == InitCompare /\ [][NextCompare]_vars

(***************************************************************************)
(* The row keys under every value of prop rowKey.                          *)
(***************************************************************************)
InitKey ==
  /\ data \in HostData
  /\ columns = mockColumns
  /\ rowSelection = "multiple"
  /\ onRowSelect = TRUE
  /\ rowKeyProp \in RowKeyProps
  /\ sortState = [key |-> NULL, direction |-> NULL]
  /\ selectedRows = {}
  /\ rendered = {}
  /\ memo = mount(data, columns, sortState)
  /\ lastOp = [op |-> "init", arg |-> ""]
  /\ notified = FALSE
  /\ emitted = <<>>

NextKey ==
  \/ \E index \in 0..(Len(sortedData) - 1) : handleRowSelect(index)
  \/ handleSelectAll

SpecKey == InitKey /\ [][NextKey]_vars

(***************************************************************************)
(* Clicks handled in one batch: the handlers of the last render run one    *)
(* after the other, and React renders once the batch is done.              *)
(***************************************************************************)
InitBatch ==
  /\ data \in HostData
  /\ columns = mockColumns
  /\ rowSelection = "multiple"
  /\ onRowSelect = TRUE
  /\ rowKeyProp = NoRowKey
  /\ sortState = [key |-> NULL, direction |-> NULL]
  /\ selectedRows = {}
  /\ rendered = {}
  /\ memo = mount(data, columns, sortState)
  /\ lastOp = [op |-> "init", arg |-> ""]
  /\ notified = FALSE
  /\ emitted = <<>>

\* a click on a row's checkbox handled before the next render
handleRowSelectBatched(index) ==
  /\ selectable
  /\ rowSelect(index)
  /\ UNCHANGED <<rendered, memo>>

\* a click on the header's checkbox handled before the next render
handleSelectAllBatched ==
  /\ selectable
  /\ selectAll
  /\ UNCHANGED <<rendered, memo>>

\* the render at the end of a batch: the handlers close over the new state
render ==
  /\ rendered # selectedRows
  /\ rendered' = selectedRows
  /\ lastOp' = [op |-> "render", arg |-> ""]
  /\ notified' = FALSE
  /\ emitted' = <<>>
  /\ UNCHANGED <<data, columns, rowSelection, onRowSelect, rowKeyProp, sortState,
                 selectedRows>>
  /\ memo' = useMemo(memo, data', columns', sortState')

NextBatch ==
  \/ \E index \in 0..(Len(sortedData) - 1) : handleRowSelectBatched(index)
  \/ handleSelectAllBatched
  \/ render

SpecBatch == InitBatch /\ [][NextBatch]_vars

(***************************************************************************)
(* Properties.                                                             *)
(***************************************************************************)
none == [key |-> NULL, direction |-> NULL]

\* the state of one column under a sort state: the direction if the column is
\* the active one
columnState(state, column) ==
  IF state.key = column.key THEN state.direction ELSE NULL

\* C1: a click on a sortable column C takes the sort state from none to
\* (C, asc), from (C, asc) to (C, desc), from (C, desc) to none, and from any
\* state of another column to (C, asc); never are two columns in a state
\* other than none.
CycleCorrectness ==
  [][\A i \in 1..Len(columns) :
       LET C == columns[i]
       IN (lastOp' = [op |-> "handleSort", arg |-> C.key] /\ C.sortable) =>
            /\ sortState = none =>
                 sortState' = [key |-> C.key, direction |-> "asc"]
            /\ sortState = [key |-> C.key, direction |-> "asc"] =>
                 sortState' = [key |-> C.key, direction |-> "desc"]
            /\ sortState = [key |-> C.key, direction |-> "desc"] =>
                 sortState' = none
            /\ (sortState.key # NULL /\ sortState.key # C.key) =>
                 sortState' = [key |-> C.key, direction |-> "asc"]
            /\ Cardinality({j \in 1..Len(columns) :
                              columnState(sortState', columns[j]) # NULL}) <= 1]_vars

\* the third click on Age in a row has brought the sort state back to none
CycleCorrectnessWitness ==
  /\ lastOp = [op |-> "handleSort", arg |-> "age"]
  /\ sortState = none
  /\ ColAge \in Range(columns)

\* C2: the sort state has a key if and only if it has a direction.
SortStateInvariant ==
  (sortState.key # NULL) <=> (sortState.direction # NULL)

\* a sort is active after rows were selected and the data array was changed
SortStateInvariantWitness ==
  /\ sortState.key # NULL
  /\ sortState.direction = "desc"
  /\ selectedRows # {}
  /\ lastOp.op = "setData"

\* the column of the current columns the sort state names, as a set
activeColumns ==
  IF find(columns, sortState.key) = 0 THEN {}
  ELSE {columns[find(columns, sortState.key)]}

\* C3: while a column is active, every two neighbours of the view compare
\* <= 0 by that column's values when the direction is asc, and >= 0 (in
\* ascending terms) when it is desc.
ViewOrdered ==
  \A column \in activeColumns :
    \A i \in 1..(Len(sortedData) - 1) :
      LET c == compare(Field(sortedData[i], column.dataIndex),
                       Field(sortedData[i + 1], column.dataIndex), "asc")
      IN /\ sortState.direction = "asc" => c <= 0
         /\ sortState.direction = "desc" => c >= 0

\* the users of ages 30, 25, 35 after two clicks on Age: ages 35, 30, 25
ViewOrderedWitness ==
  /\ data = mockUsers
  /\ sortState = [key |-> "age", direction |-> "desc"]
  /\ sortedData = <<Bob, John, Jane>>

\* C4: rows whose values in the active column compare equal stand in the view
\* in the order they have in the data, whatever the direction.
Stability ==
  \A column \in activeColumns :
    \A r \in Range(data) :
      LET sameKey(x) == compare(Field(x, column.dataIndex),
                                Field(r, column.dataIndex), "asc") = 0
      IN SelectSeq(sortedData, sameKey) = SelectSeq(data, sameKey)

\* two users of age 30 with an older one between them, sorted descending
StabilityWitness ==
  /\ data = <<John, Bob, Jane2>>
  /\ sortState = [key |-> "age", direction |-> "desc"]
  /\ sortedData = <<Bob, John, Jane2>>

occurrences(rows, r) == Cardinality({i \in 1..Len(rows) : rows[i] = r})

\* C5: the view has the length of the data and holds every row as often as
\* the data does.
ViewIsPermutation ==
  /\ Len(sortedData) = Len(data)
  /\ \A r \in Range(data) \cup Range(sortedData) :
       occurrences(sortedData, r) = occurrences(data, r)

\* the users of ages 30, 25, 35 after one click on Age: ages 25, 30, 35
ViewIsPermutationWitness ==
  /\ data = mockUsers
  /\ sortState = [key |-> "age", direction |-> "asc"]
  /\ sortedData = <<Jane, John, Bob>>

\* C6: while the sort state is none the view is the data in its own order, and
\* so it is after the click that ends the cycle of a column.
RoundTrip ==
  [][/\ sortState' = none => derive(data', columns', sortState') = data'
     /\ \A i \in 1..Len(columns) :
          (/\ lastOp' = [op |-> "handleSort", arg |-> columns[i].key]
           /\ columns[i].sortable
           /\ sortState = [key |-> columns[i].key, direction |-> "desc"])
            => derive(data', columns', sortState') = data']_vars

\* the third click on Age: the users are back in the order 30, 25, 35
RoundTripWitness ==
  /\ data = mockUsers
  /\ lastOp = [op |-> "handleSort", arg |-> "age"]
  /\ sortState = none
  /\ sortedData = mockUsers

\* C7: a click on a column that is not sortable changes neither the sort
\* state nor the selection nor the view, and does not call the observer.
NonSortableNoOp ==
  [][\A i \in 1..Len(columns) :
       (/\ lastOp' = [op |-> "handleSort", arg |-> columns[i].key]
        /\ ~columns[i].sortable)
         => /\ sortState' = sortState
            /\ selectedRows' = selectedRows
            /\ derive(data', columns', sortState') = derive(data, columns, sortState)
            /\ ~notified']_vars

\* a click on Status while the view is sorted by name and rows are selected
NonSortableNoOpWitness ==
  /\ lastOp = [op |-> "handleSort", arg |-> "status"]
  /\ sortState = [key |-> "name", direction |-> "asc"]
  /\ sortedData # data
  /\ selectedRows # {}

\* C8: in multiple mode a click on the checkbox of a row changes the
\* membership of that row's key in the selection, and of no other key.
ToggleFlipsOne ==
  [][(rowSelection = "multiple" /\ lastOp'.op = "handleRowSelect") =>
       \A index \in 0..(Len(sortedData) - 1) :
         handleRowSelect(index) =>
         LET key == getRowKey(sortedData[index + 1], index)
         IN /\ (key \in selectedRows') <=> (key \notin selectedRows)
            /\ \A k \in (selectedRows \cup selectedRows') \ {key} :
                 (k \in selectedRows') <=> (k \in selectedRows)]_vars

\* rows 1 and 3 selected one after the other, starting from no selection
ToggleFlipsOneWitness ==
  /\ rowSelection = "multiple"
  /\ data = <<Anon, John, Bob>>
  /\ lastOp.op = "handleRowSelect"
  /\ selectedRows = {Num(1), Num(3)}
  /\ emitted = <<John, Bob>>

\* C9: in single mode a click on the checkbox of a row whose key is not
\* selected leaves that key alone in the selection, and a click on the row
\* whose key is the only one selected leaves the selection empty.
SingleModeReplaces ==
  [][(rowSelection = "single" /\ lastOp'.op = "handleRowSelect") =>
       \A index \in 0..(Len(sortedData) - 1) :
         handleRowSelect(index) =>
         LET key == getRowKey(sortedData[index + 1], index)
         IN /\ key \notin selectedRows => selectedRows' = {key}
            /\ selectedRows = {key} => selectedRows' = {}]_vars

\* the positions of the data whose row has its key in the selection
selectedPositions == {i \in 1..Len(data) : getRowKey(data[i], i - 1) \in selectedRows}

\* the rows at those positions, in the order of the data
selectedInDataOrder ==
  [k \in 1..Cardinality(selectedPositions) |->
     data[CHOOSE i \in selectedPositions :
            Cardinality({j \in selectedPositions : j < i}) = k - 1]]

\* C10: a click on a row's checkbox or on the header's calls the registered
\* observer, and what the observer gets is the rows of the data whose key is
\* in the new selection, in the order of the data.
EmitsSelectedInDataOrder ==
  /\ (lastOp.op \in {"handleRowSelect", "handleSelectAll"} /\ onRowSelect) => notified
  /\ notified => emitted = selectedInDataOrder

\* select-all under a sorted view: the observer gets the data in its own order
EmitsSelectedInDataOrderWitness ==
  /\ lastOp.op = "handleSelectAll"
  /\ notified
  /\ sortState.key # NULL
  /\ sortedData # data
  /\ Len(data) = MaxRows
  /\ emitted = data

\* the rows of the data have keys different from one another
distinctKeys == Cardinality(allKeys(data)) = Len(data)

\* C11: over data whose rows have distinct keys, a click on the header
\* checkbox empties the selection if the selection is the set of the keys of
\* all rows of the data, and makes it that set if it is any other set.
SelectAllBySetEquality ==
  [][(lastOp'.op = "handleSelectAll" /\ distinctKeys) =>
       selectedRows' = IF selectedRows = allKeys(data) THEN {} ELSE allKeys(data)]_vars

\* C13: after a click on a checkbox, over data whose rows all have an id,
\* every key of the selection is the key of a row of the data.
StaleKeysDropped ==
  (/\ lastOp.op \in {"handleRowSelect", "handleSelectAll"}
   /\ \A i \in 1..Len(data) : Field(data[i], rowKey).t # "null")
    => selectedRows \subseteq allKeys(data)

\* C14: all-selected is reported exactly when the selection has the size of
\* the data and the data is not empty, indeterminate exactly when the
\* selection is not empty and smaller than the data.
SelectionStatus ==
  /\ isAllSelected <=>
       (Cardinality(selectedRows) = Len(data) /\ Len(data) > 0)
  /\ isIndeterminate <=>
       (selectedRows # {} /\ Cardinality(selectedRows) < Len(data))

\* one of three rows selected: indeterminate, not all-selected
SelectionStatusWitness ==
  /\ lastOp.op = "handleRowSelect"
  /\ Len(data) = MaxRows
  /\ Cardinality(selectedRows) = 1
  /\ isIndeterminate
  /\ ~isAllSelected

\* C15: while selection is disabled the selection is empty and the observer
\* is not called.
DisabledNoSelection ==
  ~selectable => (selectedRows = {} /\ ~notified /\ emitted = <<>>)

\* a table without checkboxes, rows shown and sorted, an observer registered
DisabledNoSelectionWitness ==
  /\ rowSelection = NULL
  /\ onRowSelect
  /\ Len(data) = MaxRows
  /\ lastOp.op = "handleSort"
  /\ sortState.key # NULL

\* C17: of two cell values of the active column of which one is absent, the
\* absent one compares smaller under asc and greater under desc, and its row
\* stands before the other in the asc view and behind it in the desc view;
\* two absent values compare equal under both directions.
AbsentFirstAscLastDesc ==
  \A column \in activeColumns :
    LET value(r) == Field(r, column.dataIndex)
        absent(r) == value(r).t = "null"
    IN /\ \A r1, r2 \in Range(data) :
            /\ (absent(r1) /\ absent(r2)) =>
                 /\ compare(value(r1), value(r2), "asc") = 0
                 /\ compare(value(r1), value(r2), "desc") = 0
            /\ (absent(r1) /\ ~absent(r2)) =>
                 /\ compare(value(r1), value(r2), "asc") < 0
                 /\ compare(value(r2), value(r1), "asc") > 0
                 /\ compare(value(r1), value(r2), "desc") > 0
                 /\ compare(value(r2), value(r1), "desc") < 0
       /\ \A i, j \in 1..Len(sortedData) :
            i < j =>
              /\ sortState.direction = "asc" =>
                   ~(~absent(sortedData[i]) /\ absent(sortedData[j]))
              /\ sortState.direction = "desc" =>
                   ~(absent(sortedData[i]) /\ ~absent(sortedData[j]))

\* a row without age before one with age, sorted by age descending
AbsentFirstAscLastDescWitness ==
  /\ data = <<Bo, Anon, John>>
  /\ sortState = [key |-> "age", direction |-> "desc"]
  /\ sortedData = <<John, Bo, Anon>>

\* C20: while the sort state names a key that no column of the current
\* columns has, the view is the data in its own order.
UnknownColumnKeepsOrder ==
  (/\ sortState.key # NULL
   /\ \A i \in 1..Len(columns) : columns[i].key # sortState.key)
    => sortedData = data

\* the view was sorted by age when the host took the Age column away
UnknownColumnKeepsOrderWitness ==
  /\ data = mockUsers
  /\ sortState = [key |-> "age", direction |-> "asc"]
  /\ columns = <<ColName, ColStatus>>
  /\ lastOp.op = "setColumns"
  /\ sortedData = mockUsers

\* C12 (as stated): with distinct row keys and the data unchanged, a second
\* call of handleSelectAll right after a first one gives back the selection
\* the first call started from, whatever that selection was.
SelectAllTwiceRestoresAny ==
  [][(lastOp'.op = "handleSelectAll" /\ distinctKeys) =>
       selectAllResult(selectedRows', data') = selectedRows]_vars

\* C12 (amended): with distinct row keys and the data unchanged, when the
\* selection is empty or is exactly the set of keys of the data, a second call
\* of handleSelectAll right after a first one gives back that selection.
SelectAllTwiceRestores ==
  [][(/\ lastOp'.op = "handleSelectAll"
      /\ distinctKeys
      /\ selectedRows \in {{}, allKeys(data)}) =>
       selectAllResult(selectedRows', data') = selectedRows]_vars

SelectAllTwiceRestoresWitness ==
  /\ lastOp.op = "handleSelectAll"
  /\ Len(data) = MaxRows
  /\ distinctKeys
  /\ selectedRows = allKeys(data)
  /\ selectAllResult(selectedRows, data) = {}

\* the key the amended C16 gives the row at position i of the data
resolved(i) ==
  IF Field(data[i], rowKey).t = "null" THEN Num(i - 1) ELSE Field(data[i], rowKey)

ToggleEmitsToggledRow ==
  [][(/\ lastOp'.op = "handleRowSelect"
      /\ onRowSelect
      /\ distinctKeys
      /\ selectedRows = {}) =>
       \A index \in 0..(Len(sortedData) - 1) :
         handleRowSelect(index) => emitted' = <<sortedData[index + 1]>>]_vars

\* C19: when a click on a row's checkbox is handled right after a click on
\* another row's checkbox, it toggles its row's key in the selection the first
\* click left, also when no render has run in between.
BatchedTogglesAllApplied ==
  [][(lastOp.op = "handleRowSelect" /\ lastOp'.op = "handleRowSelect" /\ distinctKeys) =>
       \A index \in 0..(Len(sortedData) - 1) :
         LET b == getRowKey(sortedData[index + 1], index)
         IN (/\ handleRowSelectBatched(index)
             /\ b \notin (selectedRows \ rendered) \cup (rendered \ selectedRows))
              => selectedRows' = toggled(selectedRows, b)]_vars

\* C21: the view displayed is the function derive of the current data,
\* columns and sort state, whatever header clicks and column changes came
\* before: it owes nothing to the views displayed earlier.
ViewIsFunctionOfState ==
  /\ sortedData = derive(data, columns, sortState)
  /\ memo = mount(data, columns, sortState)

ViewIsFunctionOfStateWitness ==
  /\ data = <<John, Jane2, Jane>>
  /\ lastOp = [op |-> "handleSort", arg |-> "age"]
  /\ sortState = [key |-> "age", direction |-> "asc"]
  /\ sortedData = <<Jane, John, Jane2>>

\* C22: a header click, a click on a row's checkbox and a click on the
\* header's checkbox leave the data array the host supplied as it was: the
\* same rows in the same order.
DataNotMutated ==
  [][lastOp'.op \in {"handleSort", "handleRowSelect", "handleSelectAll"} =>
       data' = data]_vars

DataNotMutatedWitness ==
  /\ lastOp.op = "handleSort"
  /\ data = <<John, Bob, Anon>>
  /\ sortedData = <<Anon, Bob, John>>

\* C24: a render with another data array leaves the sort state and the
\* stored selection as they were.
DataChangeKeepsState ==
  [][lastOp'.op = "setData" =>
       (sortState' = sortState /\ selectedRows' = selectedRows)]_vars

DataChangeKeepsStateWitness ==
  /\ lastOp.op = "setData"
  /\ data = <<John>>
  /\ sortState = [key |-> "name", direction |-> "desc"]
  /\ selectedRows = {John.id, Bob.id}

\* C25: a header click leaves the selection as it was and does not call the
\* observer; a click on a row's checkbox or on the header's checkbox leaves
\* the sort state as it was.
SortAndSelectionIndependent ==
  [][/\ lastOp'.op = "handleSort" =>
          (selectedRows' = selectedRows /\ ~notified' /\ emitted' = <<>>)
     /\ lastOp'.op \in {"handleRowSelect", "handleSelectAll"} =>
          sortState' = sortState]_vars

SortAndSelectionIndependentWitness ==
  /\ lastOp.op = "handleRowSelect"
  /\ onRowSelect
  /\ sortState = [key |-> "name", direction |-> "desc"]
  /\ data = <<John, Bob>>
  /\ selectedRows = {Bob.id}

\* isSelected: the positions of the view whose checkbox is shown checked
isSelected == {i \in 1..Len(sortedData) : getRowKey(sortedData[i], i - 1) \in selectedRows}

\* C23: when every row has an id and the ids are distinct, the header
\* checkbox is indeterminate exactly when some but not all rows shown are
\* checked, and when it is checked every row shown is checked, also after the
\* host has passed other data.
StatusMatchesCheckedRows ==
  (distinctKeys /\ \A i \in 1..Len(data) : Field(data[i], rowKey).t # "null") =>
    /\ isIndeterminate <=> (isSelected # {} /\ isSelected # 1..Len(sortedData))
    /\ isAllSelected => isSelected = 1..Len(sortedData)

\* C26: exactly one of the three selection statuses holds: nothing selected,
\* indeterminate, all selected.
ExactlyOneStatus ==
  /\ selectedRows = {} \/ isIndeterminate \/ isAllSelected
  /\ ~(selectedRows = {} /\ isIndeterminate)
  /\ ~(selectedRows = {} /\ isAllSelected)
  /\ ~(isIndeterminate /\ isAllSelected)

sign(n) == IF n < 0 THEN -1 ELSE IF n > 0 THEN 1 ELSE 0

\* the values are of one type, absent values apart
oneType(values) == Cardinality({v.t : v \in values} \ {"null"}) <= 1

\* the cells the comparator is applied to: those of the column the view is
\* sorted by
cells ==
  IF sortState.key # ColValue.key \/ sortState.direction = NULL THEN {}
  ELSE {Field(data[i], ColValue.dataIndex) : i \in 1..Len(data)}

\* C27 (first part): for any two cells, the sign of the comparison under
\* descending is the negation of its sign under ascending.
DescendingNegates ==
  \A a, b \in cells :
    sign(compare(a, b, "desc")) = -sign(compare(a, b, "asc"))

\* C27 (second part): over cells of one type, absent ones apart, the
\* comparison is antisymmetric.
ComparatorAntisymmetric ==
  \A a, b \in cells : \A d \in {"asc", "desc"} :
    oneType({a, b}) => sign(compare(a, b, d)) = -sign(compare(b, a, d))

\* C27: for any two cells, the sign of the comparison under descending is the
\* negation of its sign under ascending; and over cells of one type, absent
\* ones apart, the comparison is antisymmetric and transitive.
ComparatorConsistent ==
  /\ DescendingNegates
  /\ ComparatorAntisymmetric
  /\ \A a, b, c \in cells : \A d \in {"asc", "desc"} :
       (/\ oneType({a, b, c})
        /\ compare(a, b, d) <= 0
        /\ compare(b, c, d) <= 0) => compare(a, c, d) <= 0

====
